---- MODULE Spec2Model ----
(***************************************************************************)
(* Model of plugin.py: MessageReactAction.execute and                      *)
(* MessageReactAction.send_msg_react.                                      *)
(*                                                                         *)
(* One invocation of execute is followed statement by statement.  The      *)
(* collaborators of the host framework (recent-message store, model        *)
(* registry, model invocation, JSON repair, outcome store) and the gateway *)
(* are environments: what they return is chosen nondeterministically from  *)
(* small sets at the step where the code calls them.                       *)
(*                                                                         *)
(* Text is modelled as sequences of one-character strings where the code   *)
(* looks inside it (the emoji_id string), and as tuples of parts where the *)
(* code only formats it (f-strings).  The Chinese literals of the source   *)
(* are written in ASCII; the literal is quoted in the comment next to the  *)
(* definition.                                                             *)
(***************************************************************************)
EXTENDS Naturals, Sequences, FiniteSets, TLC

\* Longest emoji_id string the model reply may carry.
MaxLen == 4

\* ------------------------------------------------------------------------
\* Characters and text helpers
\* ------------------------------------------------------------------------

WS == " "
DQ == "\""
SQ == "'"

\* Characters the model's emoji_id string is built from: two digits, a
\* whitespace, both quote characters and a letter.
Alphabet == {"5", "6", WS, DQ, SQ, "x"}

DigitChars == <<"0", "1", "2", "3", "4", "5", "6", "7", "8", "9">>

IsDigit(c) == \E i \in 1..10 : DigitChars[i] = c

DigitVal(c) == (CHOOSE i \in 1..10 : DigitChars[i] = c) - 1

\* All strings over Alphabet of length at most MaxLen.
Strings == UNION {[1..n -> Alphabet] : n \in 0..MaxLen}

\* str(n) for a non-negative integer n.
RECURSIVE Digits(_)
Digits(n) ==
    IF n < 10 THEN <<DigitChars[n + 1]>>
    ELSE Append(Digits(n \div 10), DigitChars[(n % 10) + 1])

\* str.strip(): drop leading and trailing whitespace.
RECURSIVE LStrip(_)
LStrip(s) == IF s # <<>> /\ Head(s) = WS THEN LStrip(Tail(s)) ELSE s

RECURSIVE RStrip(_)
RStrip(s) ==
    IF s # <<>> /\ s[Len(s)] = WS THEN RStrip(SubSeq(s, 1, Len(s) - 1)) ELSE s

Strip(s) == RStrip(LStrip(s))

\* str.replace(c, ""): drop every occurrence of the character c.
RECURSIVE Remove(_, _)
Remove(s, c) ==
    IF s = <<>> THEN <<>>
    ELSE IF Head(s) = c THEN Remove(Tail(s), c)
    ELSE <<Head(s)>> \o Remove(Tail(s), c)

\* int(s): Python accepts surrounding whitespace around the digits; anything
\* else over this alphabet is a ValueError.
IntOk(s) ==
    LET t == Strip(s) IN t # <<>> /\ \A i \in 1..Len(t) : IsDigit(t[i])

RECURSIVE DigitsVal(_)
DigitsVal(t) ==
    IF t = <<>> THEN 0
    ELSE DigitsVal(SubSeq(t, 1, Len(t) - 1)) * 10 + DigitVal(t[Len(t)])

IntVal(s) == DigitsVal(Strip(s))

\* ------------------------------------------------------------------------
\* The emoji catalog
\* ------------------------------------------------------------------------

\* available_react_emojis; names transliterated:
\* 76 点赞, 307 喵喵, 285 摸鱼, 66 爱心, 147 棒棒糖, 424 狂按按钮, 49 抱抱,
\* 38 木槌敲头, 277 狗头, 265 辣眼睛, 390 头秃, 63 玫瑰, 212 托腮, 5 大哭,
\* 9 委屈, 350 贴贴, 175 卖萌, 344 大怨种, 187 鬼魂, 144 礼花, 146 爆筋,
\* 311 打call, 59 便便, 46 猪头, 37 骷髅头, 317 菜狗, 124 OK
available_react_emojis ==
    (76 :> "dianzan") @@ (307 :> "miaomiao") @@ (285 :> "moyu") @@
    (66 :> "aixin") @@ (147 :> "bangbangtang") @@ (424 :> "kuangananniu") @@
    (49 :> "baobao") @@ (38 :> "muchuiqiaotou") @@ (277 :> "goutou") @@
    (265 :> "layanjing") @@ (390 :> "toutu") @@ (63 :> "meigui") @@
    (212 :> "tuosai") @@ (5 :> "daku") @@ (9 :> "weiqu") @@
    (350 :> "tietie") @@ (175 :> "maimeng") @@ (344 :> "dayuanzhong") @@
    (187 :> "guihun") @@ (144 :> "lihua") @@ (146 :> "baojin") @@
    (311 :> "dacall") @@ (59 :> "bianbian") @@ (46 :> "zhutou") @@
    (37 :> "kuloutou") @@ (317 :> "caigou") @@ (124 :> "OK")

\* What dict.get returns on a miss, as an f-string renders it.
None == "None"

\* Variant: the catalog is looked up with the string instead of int(...), so
\* every lookup misses.
CatalogGetByString(n) == None

\* available_react_emojis.get(n)
CatalogGet(n) ==
    IF n \in DOMAIN available_react_emojis THEN available_react_emojis[n]
    ELSE None

\* ------------------------------------------------------------------------
\* Values exchanged with the collaborators
\* ------------------------------------------------------------------------

\* Message IDs of the chat.
MsgIds == {"1", "2"}

\* A value of a key of the model's JSON object: absent, a JSON string, a
\* JSON integer, or JSON null.
Absent == [t |-> "absent", s |-> <<>>, n |-> 0]
JNull == [t |-> "null", s |-> <<>>, n |-> 0]
JStr(s) == [t |-> "str", s |-> s, n |-> 0]
JInt(n) == [t |-> "int", s |-> <<>>, n |-> n]

\* Integers the model may give as a JSON number: two catalog IDs, one not.
EmojiInts == {5, 66, 6}

EmojiVals ==
    {Absent, JNull} \cup {JStr(s) : s \in Strings} \cup {JInt(n) : n \in EmojiInts}

\* Marks a key or field that the JSON object does not have.
NoField == "<absent>"

MsgVals == {NoField} \cup MsgIds

\* The model's text, identified by what json.loads makes of it after the
\* repair step: not JSON at all, a JSON value that is not an object, or an
\* object with or without the two keys.
MalformedText == [kind |-> "malformed", message_id |-> NoField, emoji_id |-> Absent]
NonObjectText == [kind |-> "nonobject", message_id |-> NoField, emoji_id |-> Absent]
ObjectText(m, e) == [kind |-> "object", message_id |-> m, emoji_id |-> e]

ModelTexts ==
    {MalformedText, NonObjectText}
        \cup {ObjectText(m, e) : m \in MsgVals, e \in EmojiVals}

\* str(emoji_id_raw)
Str(v) ==
    CASE v.t = "str" -> v.s
      [] v.t = "int" -> Digits(v.n)
      [] OTHER -> <<"N", "o", "n", "e">>

\* Variant: the quotes are removed but the whitespace is not stripped.
CleanNoStrip(s) == Remove(Remove(s, DQ), SQ)

\* emoji_id_str.strip().replace('"', "").replace("'", "")
Clean(s) == Remove(Remove(Strip(s), DQ), SQ)

\* What the gateway does with one request: the transport fails, the body is
\* not UTF-8, the body is not JSON, the body is JSON but not an object, or
\* the body is an object with an optional status and an optional message.
GatewayReplies ==
    {[kind |-> k, status |-> NoField, message |-> NoField] :
        k \in {"transport_error", "decode_error", "not_json", "nonobject"}}
    \cup {[kind |-> "object", status |-> st, message |-> m] :
            st \in {NoField, "ok", "failed"}, m \in {NoField, "done"}}

\* "消息反应仅支持群聊"
GroupOnlyMsg == <<"msg_react only supports group chats">>

\* "未找到'tool_use'模型配置"
NoModelMsg == <<"tool_use model configuration not found">>

\* f"LLM调用失败: {chosen_react_emoji_json_str}"
LlmFailedMsg(text) == <<"LLM call failed: ", text>>

\* f"反应表情：贴在了消息ID={selected_message_id}上，表情是={chosen_react_emoji_name}"
OutcomeMsg(mid, name) == <<"reaction: attached to message ID=", mid, ", emoji=", name>>

\* f"[反应表情：贴在了消息ID={selected_message_id}上，表情是={chosen_react_emoji_name}]"
RecordMsg(mid, name) == <<"[">> \o OutcomeMsg(mid, name) \o <<"]">>

\* f"贴表情失败 {error_info}"
GatewayFailMsg(errorType) == <<"msg_react failed ", errorType>>

\* ------------------------------------------------------------------------
\* send_msg_react
\* ------------------------------------------------------------------------

\* The body of the POST: {"message_id": ..., "emoji_id": ..., "set": True}
Payload(message_id, chosen_react_emoji) ==
    [message_id |-> message_id, emoji_id |-> chosen_react_emoji, set |-> TRUE]

\* Variant: no inner try around json.loads and .get; a body that is not a
\* JSON object raises out of send_msg_react.
SendMsgReactResultNoInnerTry(reply) ==
    CASE reply.kind = "transport_error" ->
            [raised |-> "", ok |-> FALSE, msg |-> GatewayFailMsg("ConnectionError")]
      [] reply.kind = "decode_error" ->
            [raised |-> "", ok |-> FALSE, msg |-> GatewayFailMsg("UnicodeDecodeError")]
      [] reply.kind = "not_json" ->
            [raised |-> "JSONDecodeError", ok |-> FALSE, msg |-> <<>>]
      [] reply.kind = "nonobject" ->
            [raised |-> "AttributeError", ok |-> FALSE, msg |-> <<>>]
      [] OTHER ->
            [raised |-> "",
             ok |-> (reply.status = "ok"),
             msg |-> IF reply.message # NoField THEN <<reply.message>>
                     ELSE <<"body", reply.status>>]

\* Variant: no outer try around the request; a transport error raises out of
\* send_msg_react.
SendMsgReactResultNoOuterTry(reply) ==
    CASE reply.kind = "transport_error" ->
            [raised |-> "ConnectionError", ok |-> FALSE, msg |-> <<>>]
      [] reply.kind = "decode_error" ->
            [raised |-> "UnicodeDecodeError", ok |-> FALSE, msg |-> <<>>]
      [] reply.kind = "not_json" ->
            [raised |-> "", ok |-> FALSE, msg |-> GatewayFailMsg("JSONDecodeError")]
      [] reply.kind = "nonobject" ->
            [raised |-> "", ok |-> FALSE, msg |-> GatewayFailMsg("AttributeError")]
      [] OTHER ->
            [raised |-> "",
             ok |-> (reply.status = "ok"),
             msg |-> IF reply.message # NoField THEN <<reply.message>>
                     ELSE <<"body", reply.status>>]

\* What send_msg_react returns for one gateway reply: raised is the exception
\* type that leaves the function ("" when it returns), ok and msg the tuple.
SendMsgReactResult(reply) ==
    CASE reply.kind = "transport_error" ->
            [raised |-> "", ok |-> FALSE, msg |-> GatewayFailMsg("ConnectionError")]
      [] reply.kind = "decode_error" ->
            [raised |-> "", ok |-> FALSE, msg |-> GatewayFailMsg("UnicodeDecodeError")]
      [] reply.kind = "not_json" ->
            [raised |-> "", ok |-> FALSE, msg |-> GatewayFailMsg("JSONDecodeError")]
      [] reply.kind = "nonobject" ->
            [raised |-> "", ok |-> FALSE, msg |-> GatewayFailMsg("AttributeError")]
      [] OTHER ->
            [raised |-> "",
             ok |-> (reply.status = "ok"),
             msg |-> IF reply.message # NoField THEN <<reply.message>>
                     ELSE <<"body", reply.status>>]

\* ------------------------------------------------------------------------
\* State
\* ------------------------------------------------------------------------

VARIABLES
    pc,                       \* the statement execute is at
    is_group,                 \* self.is_group
    recent_messages,          \* message IDs returned by get_recent_messages
    chat_model_config,        \* whether models.get("tool_use") is truthy
    success,                  \* success flag of generate_with_model
    chosen_react_emoji_json_str,  \* raw text of generate_with_model
    json_resp,                \* json.loads(fixedResp)
    selected_message_id,
    chosen_react_emoji_id,
    chosen_react_emoji_name,
    llm_calls,                \* number of generate_with_model calls
    gateway_calls,            \* payloads POSTed to /set_msg_emoji_like
    gateway_reply,            \* what the gateway did with the request
    react_result,             \* what send_msg_react returned
    stored,                   \* records passed to store_action_info
    events,                   \* order of the external calls made
    result,                   \* the tuple execute returned
    raised                    \* the exception that left execute, "" if none

vars ==
    <<pc, is_group, recent_messages, chat_model_config, success,
      chosen_react_emoji_json_str, json_resp, selected_message_id,
      chosen_react_emoji_id, chosen_react_emoji_name, llm_calls,
      gateway_calls, gateway_reply, react_result, stored, events, result,
      raised>>

NoResult == [ok |-> FALSE, msg |-> <<>>]
NoReply == [kind |-> "none", status |-> NoField, message |-> NoField]
NoReact == [raised |-> "", ok |-> FALSE, msg |-> <<>>]

Init ==
    /\ pc = "check_group"
    /\ is_group \in BOOLEAN
    /\ recent_messages = {}
    /\ chat_model_config = FALSE
    /\ success = FALSE
    /\ chosen_react_emoji_json_str = MalformedText
    /\ json_resp = MalformedText
    /\ selected_message_id = NoField
    /\ chosen_react_emoji_id = <<>>
    /\ chosen_react_emoji_name = None
    /\ llm_calls = 0
    /\ gateway_calls = <<>>
    /\ gateway_reply = NoReply
    /\ react_result = NoReact
    /\ stored = <<>>
    /\ events = <<>>
    /\ result = NoResult
    /\ raised = ""

\* return ok, msg
Return(ok, msg) ==
    /\ pc' = "done"
    /\ result' = [ok |-> ok, msg |-> msg]
    /\ UNCHANGED raised

\* an exception leaves execute
Raise(e) ==
    /\ pc' = "raised"
    /\ raised' = e
    /\ UNCHANGED result

\* Variant: the group check does not return.
CheckGroupNoReturn ==
    /\ pc = "check_group"
    /\ pc' = "gather"
    /\ UNCHANGED <<is_group, recent_messages, chat_model_config, success,
                   chosen_react_emoji_json_str, json_resp, selected_message_id,
                   chosen_react_emoji_id, chosen_react_emoji_name, llm_calls,
                   gateway_calls, gateway_reply, react_result, stored, events,
                   result, raised>>

\* if not self.is_group: return False, "消息反应仅支持群聊"
CheckGroup ==
    /\ pc = "check_group"
    /\ IF ~is_group
          THEN Return(FALSE, GroupOnlyMsg)
          ELSE pc' = "gather" /\ UNCHANGED <<result, raised>>
    /\ UNCHANGED <<is_group, recent_messages, chat_model_config, success,
                   chosen_react_emoji_json_str, json_resp, selected_message_id,
                   chosen_react_emoji_id, chosen_react_emoji_name, llm_calls,
                   gateway_calls, gateway_reply, react_result, stored, events>>

\* recent_messages = message_api.get_recent_messages(...); the prompt is built
GatherContext ==
    /\ pc = "gather"
    /\ recent_messages' \in {{}, MsgIds}
    /\ pc' = "models"
    /\ UNCHANGED <<is_group, chat_model_config, success,
                   chosen_react_emoji_json_str, json_resp,
                   selected_message_id, chosen_react_emoji_id,
                   chosen_react_emoji_name, llm_calls, gateway_calls,
                   gateway_reply, react_result, stored, events, result, raised>>

\* Variant: a missing configuration is logged but the model is called anyway.
LookupModelNoReturn ==
    /\ pc = "models"
    /\ chat_model_config' \in BOOLEAN
    /\ pc' = "generate"
    /\ UNCHANGED <<is_group, recent_messages, success,
                   chosen_react_emoji_json_str, json_resp, selected_message_id,
                   chosen_react_emoji_id, chosen_react_emoji_name, llm_calls,
                   gateway_calls, gateway_reply, react_result, stored, events,
                   result, raised>>

\* chat_model_config = models.get("tool_use"); if not chat_model_config: return
LookupModel ==
    /\ pc = "models"
    /\ chat_model_config' \in BOOLEAN
    /\ IF ~chat_model_config'
          THEN Return(FALSE, NoModelMsg)
          ELSE pc' = "generate" /\ UNCHANGED <<result, raised>>
    /\ UNCHANGED <<is_group, recent_messages, success,
                   chosen_react_emoji_json_str, json_resp, selected_message_id,
                   chosen_react_emoji_id, chosen_react_emoji_name, llm_calls,
                   gateway_calls, gateway_reply, react_result, stored, events>>

\* success, chosen_react_emoji_json_str, _, _ = await generate_with_model(...)
GenerateWithModel ==
    /\ pc = "generate"
    /\ success' \in BOOLEAN
    /\ chosen_react_emoji_json_str' \in ModelTexts
    /\ llm_calls' = llm_calls + 1
    /\ events' = Append(events, "llm")
    /\ pc' = "parse"
    /\ UNCHANGED <<is_group, recent_messages, chat_model_config, json_resp,
                   selected_message_id,
                   chosen_react_emoji_id, chosen_react_emoji_name,
                   gateway_calls, gateway_reply,
                   react_result, stored, result, raised>>

\* json_resp = json.loads(fix_broken_generated_json(...))
\* if not success: return False, f"LLM调用失败: {...}"
ParseAndCheck ==
    /\ pc = "parse"
    /\ IF chosen_react_emoji_json_str.kind = "malformed"
          THEN Raise("JSONDecodeError") /\ UNCHANGED json_resp
          ELSE /\ json_resp' = chosen_react_emoji_json_str
               /\ IF ~success
                     THEN Return(FALSE, LlmFailedMsg(chosen_react_emoji_json_str))
                     ELSE pc' = "select" /\ UNCHANGED <<result, raised>>
    /\ UNCHANGED <<is_group, recent_messages, chat_model_config, success,
                   chosen_react_emoji_json_str, selected_message_id,
                   chosen_react_emoji_id, chosen_react_emoji_name, llm_calls,
                   gateway_calls, gateway_reply, react_result, stored, events>>

\* selected_message_id = json_resp["message_id"]
\* emoji_id_raw = json_resp["emoji_id"]
SelectFields ==
    /\ pc = "select"
    /\ IF json_resp.kind # "object"
          THEN Raise("TypeError") /\ UNCHANGED selected_message_id
          ELSE IF json_resp.message_id = NoField
          THEN Raise("KeyError") /\ UNCHANGED selected_message_id
          ELSE IF json_resp.emoji_id = Absent
          THEN /\ selected_message_id' = json_resp.message_id
               /\ Raise("KeyError")
          ELSE /\ selected_message_id' = json_resp.message_id
               /\ pc' = "resolve"
               /\ UNCHANGED <<result, raised>>
    /\ UNCHANGED <<is_group, recent_messages, chat_model_config, success,
                   chosen_react_emoji_json_str, json_resp,
                   chosen_react_emoji_id, chosen_react_emoji_name, llm_calls,
                   gateway_calls, gateway_reply, react_result, stored, events>>

\* Variant: the catalog is indexed (available_react_emojis[...]) instead of
\* .get(...), so an unknown ID raises.
ResolveEmojiAbortOnMiss ==
    /\ pc = "resolve"
    /\ LET emoji_id_str == Str(json_resp.emoji_id)
           cleaned == Clean(emoji_id_str)
       IN  /\ chosen_react_emoji_id' = cleaned
           /\ IF ~IntOk(cleaned)
                 THEN /\ Raise("ValueError")
                      /\ UNCHANGED chosen_react_emoji_name
                 ELSE IF IntVal(cleaned) \notin DOMAIN available_react_emojis
                 THEN /\ Raise("KeyError")
                      /\ UNCHANGED chosen_react_emoji_name
                 ELSE /\ chosen_react_emoji_name' = CatalogGet(IntVal(cleaned))
                      /\ pc' = "send"
                      /\ UNCHANGED <<result, raised>>
    /\ UNCHANGED <<is_group, recent_messages, chat_model_config, success,
                   chosen_react_emoji_json_str, json_resp, selected_message_id,
                   llm_calls, gateway_calls, gateway_reply, react_result,
                   stored, events>>

\* emoji_id_str = str(emoji_id_raw)
\* chosen_react_emoji_id = emoji_id_str.strip().replace('"', "").replace("'", "")
\* chosen_react_emoji_name = available_react_emojis.get(int(chosen_react_emoji_id))
ResolveEmoji ==
    /\ pc = "resolve"
    /\ LET emoji_id_str == Str(json_resp.emoji_id)
           cleaned == Clean(emoji_id_str)
       IN  /\ chosen_react_emoji_id' = cleaned
           /\ IF IntOk(cleaned)
                 THEN /\ chosen_react_emoji_name' = CatalogGet(IntVal(cleaned))
                      /\ pc' = "send"
                      /\ UNCHANGED <<result, raised>>
                 ELSE /\ Raise("ValueError")
                      /\ UNCHANGED chosen_react_emoji_name
    /\ UNCHANGED <<is_group, recent_messages, chat_model_config, success,
                   chosen_react_emoji_json_str, json_resp, selected_message_id,
                   llm_calls, gateway_calls, gateway_reply, react_result, stored, events>>

\* await self.send_msg_react(chat_id, selected_message_id,
\*                           chosen_react_emoji_id, host, port, token)
SendMsgReact ==
    /\ pc = "send"
    /\ \E reply \in GatewayReplies :
          LET r == SendMsgReactResult(reply)
          IN  /\ gateway_reply' = reply
              /\ react_result' = r
              /\ IF r.raised # ""
                    THEN Raise(r.raised)
                    ELSE pc' = "store" /\ UNCHANGED <<result, raised>>
    /\ gateway_calls' =
          Append(gateway_calls, Payload(selected_message_id, chosen_react_emoji_id))
    /\ events' = Append(events, "gateway")
    /\ UNCHANGED <<is_group, recent_messages, chat_model_config, success,
                   chosen_react_emoji_json_str, json_resp, selected_message_id,
                   chosen_react_emoji_id, chosen_react_emoji_name, llm_calls,
                   stored>>

\* await store_action_info(self.chat_stream, True, f"[...]", True, ...)
StoreActionInfo ==
    /\ pc = "store"
    /\ stored' =
          Append(stored, RecordMsg(selected_message_id, chosen_react_emoji_name))
    /\ events' = Append(events, "store")
    /\ pc' = "return"
    /\ UNCHANGED <<is_group, recent_messages, chat_model_config, success,
                   chosen_react_emoji_json_str, json_resp, selected_message_id,
                   chosen_react_emoji_id, chosen_react_emoji_name, llm_calls,
                   gateway_calls, gateway_reply,
                   react_result, result, raised>>

\* Variant: the returned flag also requires the gateway call to have succeeded.
ReturnOutcomeGatewayFlag ==
    /\ pc = "return"
    /\ Return(success = TRUE /\ react_result.ok,
              OutcomeMsg(selected_message_id, chosen_react_emoji_name))
    /\ UNCHANGED <<is_group, recent_messages, chat_model_config, success,
                   chosen_react_emoji_json_str, json_resp, selected_message_id,
                   chosen_react_emoji_id, chosen_react_emoji_name, llm_calls,
                   gateway_calls, gateway_reply, react_result, stored, events>>

\* return success == True, f"反应表情：贴在了消息ID={...}上，表情是={...}"
ReturnOutcome ==
    /\ pc = "return"
    /\ Return(success = TRUE,
              OutcomeMsg(selected_message_id, chosen_react_emoji_name))
    /\ UNCHANGED <<is_group, recent_messages, chat_model_config, success,
                   chosen_react_emoji_json_str, json_resp, selected_message_id,
                   chosen_react_emoji_id, chosen_react_emoji_name, llm_calls,
                   gateway_calls, gateway_reply, react_result, stored, events>>

Next ==
    \/ CheckGroup
    \/ GatherContext
    \/ LookupModel
    \/ GenerateWithModel
    \/ ParseAndCheck
    \/ SelectFields
    \/ ResolveEmoji
    \/ SendMsgReact
    \/ StoreActionInfo
    \/ ReturnOutcome

Spec == Init /\ [][Next]_vars

TypeOK ==
    /\ pc \in {"check_group", "gather", "models", "generate", "parse", "select",
               "resolve", "send", "store", "return", "done", "raised"}
    /\ llm_calls \in 0..1
    /\ Len(gateway_calls) \in 0..1
    /\ Len(stored) \in 0..1

\* ------------------------------------------------------------------------
\* Properties
\* ------------------------------------------------------------------------

Terminated == pc \in {"done", "raised"}

\* The model call has returned.
Generated == llm_calls = 1

\* C1: in a non-group context execute makes no model call, no gateway call
\* and no outcome record, raises nothing, and once it has returned its result
\* is (False, the fixed group-chat-only message).
C1_NonGroupRejected ==
    ~is_group =>
        /\ pc \in {"check_group", "done"}
        /\ llm_calls = 0
        /\ gateway_calls = <<>>
        /\ stored = <<>>
        /\ events = <<>>
        /\ raised = ""
        /\ pc = "done" => result = [ok |-> FALSE, msg |-> GroupOnlyMsg]

C1_Witness == ~is_group /\ pc = "done"

\* The lookup of the "tool_use" configuration has been made.
LookedUp == pc \notin {"check_group", "gather", "models"}

\* C2: in a group chat whose model registry has no "tool_use" entry, execute
\* makes no model call, no gateway call and no outcome record, and returns
\* (False, the configuration-not-found message).
C2_MissingModelConfig ==
    (is_group /\ LookedUp /\ ~chat_model_config) =>
        /\ pc = "done"
        /\ llm_calls = 0
        /\ gateway_calls = <<>>
        /\ stored = <<>>
        /\ events = <<>>
        /\ raised = ""
        /\ result = [ok |-> FALSE, msg |-> NoModelMsg]

C2_Witness == is_group /\ LookedUp /\ ~chat_model_config /\ pc = "done"

\* The model succeeded and its reply is an object whose message_id is one of
\* the recent messages and whose emoji_id is the integer n, as a JSON number
\* or as the string of its decimal digits.
ValidReply(n) ==
    /\ Generated
    /\ success
    /\ chosen_react_emoji_json_str.kind = "object"
    /\ chosen_react_emoji_json_str.message_id \in recent_messages
    /\ chosen_react_emoji_json_str.emoji_id \in {JInt(n), JStr(Digits(n))}

\* C3: a successful model reply naming a catalog emoji ID and a recent
\* message ID never raises, and when execute has terminated the gateway was
\* called exactly once, with that message ID and that emoji ID, and the
\* returned message names the catalog name of the emoji.
C3_ValidReplyReacts ==
    \A n \in DOMAIN available_react_emojis :
        ValidReply(n) =>
            /\ raised = ""
            /\ Len(gateway_calls) <= 1
            /\ Terminated =>
                  /\ gateway_calls =
                        <<[message_id |-> chosen_react_emoji_json_str.message_id,
                           emoji_id |-> Digits(n),
                           set |-> TRUE]>>
                  /\ result.msg =
                        OutcomeMsg(chosen_react_emoji_json_str.message_id,
                                   available_react_emojis[n])

C3_Witness ==
    /\ pc = "done"
    /\ ValidReply(66)
    /\ chosen_react_emoji_json_str.emoji_id = JStr(<<"6", "6">>)
    /\ Len(gateway_calls) = 1

\* C4 (as claimed): whenever the model call reported failure, execute
\* returns (False, message carrying the raw text) and neither calls the
\* gateway nor records an outcome, whatever the raw text is.
C4_ModelFailureReported ==
    (Generated /\ ~success /\ pc # "parse") =>
        /\ pc = "done"
        /\ raised = ""
        /\ result = [ok |-> FALSE, msg |-> LlmFailedMsg(chosen_react_emoji_json_str)]
        /\ gateway_calls = <<>>
        /\ stored = <<>>

\* The gateway call has been made and send_msg_react is over.
Reacted == gateway_reply.kind # "none"

\* C5: send_msg_react returns (True, the server's message) when the body is
\* a JSON object whose status is "ok"; for any other status, for a body
\* that is not a JSON object, and for a transport error it returns False
\* with a non-empty message; it never raises.
C5_GatewayResult ==
    Reacted =>
        /\ react_result.raised = ""
        /\ raised = ""
        /\ pc # "raised"
        /\ react_result.ok <=>
              (gateway_reply.kind = "object" /\ gateway_reply.status = "ok")
        /\ (react_result.ok /\ gateway_reply.message # NoField) =>
              react_result.msg = <<gateway_reply.message>>
        /\ react_result.msg # <<>>
        /\ gateway_reply.kind # "object" =>
              react_result.msg[1] = "msg_react failed "

C5_Witness ==
    /\ Reacted
    /\ gateway_reply = [kind |-> "object", status |-> "ok", message |-> "done"]
    /\ react_result.ok

\* C6: once the gateway call has been issued, the invocation never ends in
\* an exception; a record is stored only after the gateway call; and when
\* execute has terminated exactly one record was stored, after the gateway
\* call, whose text embeds the message ID sent and the resolved emoji name.
C6_OutcomeRecorded ==
    /\ Len(stored) <= Len(gateway_calls)
    /\ gateway_calls # <<>> =>
          /\ pc \in {"store", "return", "done"}
          /\ Len(gateway_calls) = 1
          /\ pc \in {"return", "done"} =>
                /\ events = <<"llm", "gateway", "store">>
                /\ stored =
                      <<RecordMsg(gateway_calls[1].message_id,
                                  chosen_react_emoji_name)>>

C6_Witness ==
    /\ pc = "done"
    /\ gateway_reply.kind = "transport_error"
    /\ Len(stored) = 1

\* C7 (as claimed): the only exception that leaves execute is the parse
\* error of a model text that is malformed JSON after repair.
C7_OnlyParseErrorEscapes ==
    pc = "raised" =>
        /\ raised = "JSONDecodeError"
        /\ chosen_react_emoji_json_str.kind = "malformed"

\* C8: when execute returns after recording the outcome, its flag equals the
\* model call's success flag whatever send_msg_react returned, and its
\* message names the message ID sent to the gateway and the resolved name.
C8_FlagIsModelSuccess ==
    (pc = "done" /\ stored # <<>>) =>
        /\ result.ok <=> success
        /\ result.msg =
              OutcomeMsg(gateway_calls[1].message_id, chosen_react_emoji_name)

C8_Witness ==
    /\ pc = "done"
    /\ stored # <<>>
    /\ ~react_result.ok
    /\ result.ok

Quotes == {SQ, DQ}

\* Length of the longest prefix of w made of characters of the set S.
RECURSIVE Run(_, _)
Run(w, S) == IF w # <<>> /\ Head(w) \in S THEN 1 + Run(Tail(w), S) ELSE 0

Drop(w, k) == SubSeq(w, k + 1, Len(w))

\* w is the digits of n wrapped in quote characters, the whole surrounded by
\* whitespace: whitespace, quotes, the digits of n, quotes, whitespace.
IsWrapped(w, n) ==
    LET d == Digits(n)
        a == Drop(w, Run(w, {WS}))
        b == Drop(a, Run(a, Quotes))
        c == Drop(b, Len(d))
        e == Drop(c, Run(c, Quotes))
    IN  /\ Len(b) >= Len(d)
        /\ SubSeq(b, 1, Len(d)) = d
        /\ Run(e, {WS}) = Len(e)

\* The emoji_id of the model's reply is the string w, and resolution is over.
ResolvedFrom(w) ==
    /\ pc \in {"send", "store", "return", "done", "raised"}
    /\ json_resp.kind = "object"
    /\ json_resp.emoji_id = JStr(w)
    /\ selected_message_id # NoField

\* C9: for every catalog ID n and every quote-wrapped, whitespace-padded
\* string of its digits, resolution does not fail, and the emoji_id sent to
\* the gateway and the resolved name are those of the bare number n: the
\* digits of n and the catalog name of n.
C9_WrappedResolvesAsBare ==
    \A n \in DOMAIN available_react_emojis :
        \A w \in IF json_resp.emoji_id.t = "str" THEN {json_resp.emoji_id.s} ELSE {} :
            (ResolvedFrom(w) /\ IsWrapped(w, n)) =>
                /\ raised = ""
                /\ chosen_react_emoji_id = Digits(n)
                /\ chosen_react_emoji_name = available_react_emojis[n]
                /\ \A c \in 1..Len(gateway_calls) :
                      gateway_calls[c].emoji_id = Digits(n)

C9_Witness ==
    /\ pc = "done"
    /\ json_resp.emoji_id = JStr(<<WS, SQ, "5", SQ>>)
    /\ Len(gateway_calls) = 1

\* The model succeeded and its reply is an object with a message_id and an
\* emoji_id that is the integer n.
IntegerReply(n) ==
    /\ Generated
    /\ success
    /\ chosen_react_emoji_json_str.kind = "object"
    /\ chosen_react_emoji_json_str.message_id # NoField
    /\ chosen_react_emoji_json_str.emoji_id \in {JInt(n), JStr(Digits(n))}

\* Integers outside the catalog that the model can name.
UnknownIds == {6, 55, 56, 65, 555}

\* C10: an integer emoji ID that is not in the catalog does not abort the
\* flow: nothing is raised, and when execute has terminated the gateway was
\* called once with that message ID and emoji ID, one record was stored, and
\* execute returned a message whose emoji name is the absent name.
C10_UnknownIdProceeds ==
    \A n \in UnknownIds :
        IntegerReply(n) =>
            /\ raised = ""
            /\ Terminated =>
                  /\ pc = "done"
                  /\ gateway_calls =
                        <<[message_id |-> chosen_react_emoji_json_str.message_id,
                           emoji_id |-> Digits(n),
                           set |-> TRUE]>>
                  /\ Len(stored) = 1
                  /\ chosen_react_emoji_name = None
                  /\ result.msg =
                        OutcomeMsg(chosen_react_emoji_json_str.message_id, None)

C10_Witness ==
    /\ pc = "done"
    /\ IntegerReply(56)
    /\ Len(stored) = 1

====
